---- MODULE Spec2Model ----
(***************************************************************************)
(* Model of the Book demo backend (src/backend/server.js):                 *)
(*   - POST /api/translate : translation proxy with a TTL cache            *)
(*   - GET  /api/books     : seeded synthetic catalogue generator          *)
(* and of the frontend hook useDebounce (src/frontend/src/useDebounce.js). *)
(*                                                                         *)
(* Strings are sequences of tokens.  For the translation proxy a token is   *)
(* the separator "-" or a piece of text that contains no separator; for    *)
(* the catalogue a token is one character.  Concatenating token sequences  *)
(* (\o) is string concatenation, and two strings are equal exactly when    *)
(* their token sequences are.                                              *)
(***************************************************************************)
EXTENDS Integers, Sequences, FiniteSets, TLC

VARIABLES
  now,               \* wall clock, seconds (Date.now() / 1000)
  translationCache,  \* NodeCache contents: key -> [v, t], t the expiry time
  requests,          \* POST /api/translate requests, in order of arrival
  query,             \* req.query of the GET /api/books requests
  responses,         \* the responses to them, in order
  hook,              \* a component's useDebounce: its arguments and its state
  timers,            \* the browser's pending timeouts: [id, v, left]
  stable,            \* time units since value or delay last changed
  log                \* since the mount: the values of the timeouts cleared
                     \* before they ran, and the values the hook returned

translateVars == <<now, translationCache, requests>>
booksVars == <<query, responses>>
debounceVars == <<hook, timers, stable, log>>
vars ==
  <<now, translationCache, requests, query, responses, hook, timers, stable,
    log>>

-----------------------------------------------------------------------------
(* Bounds of the model *)

MaxRequests == 2       \* translate requests received in one behaviour
MaxBatch == 2          \* longest array q
TickSeconds == 50000   \* seconds the clock advances in one Tick
MaxTicks == 2          \* Ticks in one behaviour
MaxCalls == 2          \* GET /api/books requests in one behaviour
RandMod == 3           \* states of the Math.random() generator
FakerMod == 64         \* states of faker's seeded generator
MaxDelay == 2          \* longest delay given to useDebounce, in time units

(* Program constants *)

stdTTL == 86400        \* NodeCache({ stdTTL: 86400, ... })
Radix == 10            \* parseInt(page, 10)
booksPerPage == 20     \* const booksPerPage = 20

-----------------------------------------------------------------------------
(* Inputs of POST /api/translate *)

Sources == { <<"en">> }
Targets == { <<"zh">>, <<"zh", "-", "TW">> }
Texts == { <<"hi">>, <<"TW", "-", "hi">> }

\* JSON value of q: a string or an array of strings
Str(s) == [isArray |-> FALSE, v |-> s]
Arr(a) == [isArray |-> TRUE, v |-> a]

Arrays == UNION { [1..n -> Texts] : n \in 0..MaxBatch }
Qs == { Str(s) : s \in Texts \cup { <<>> } } \cup { Arr(a) : a \in Arrays }

\* req.body: a JSON object with the fields q, source and target ...
CompleteBodies == [q : Qs \ { Str(<<>>) }, source : Sources, target : Targets]

\* ... in which a field may be absent ...
Without(body, field) == [f \in DOMAIN body \ { field } |-> body[f]]

\* ... or the empty string
Blank(body, field) ==
  [body EXCEPT ![field] = IF field = "q" THEN Str(<<>>) ELSE <<>>]

IncompleteBodies ==
  UNION { { Without(b, f), Blank(b, f) } :
            b \in { b \in CompleteBodies :
                      /\ b.q \in { Str(<<"hi">>), Arr(<< <<"hi">> >>) }
                      /\ b.target = <<"zh">> },
            f \in { "q", "source", "target" } }

Bodies == CompleteBodies \cup IncompleteBodies

-----------------------------------------------------------------------------
(* Values held by the cache and returned to the client *)

\* JavaScript's undefined
Undefined == [undef |-> TRUE]

\* The text the upstream service returns in responseData.translatedText for
\* fetch number j of request r: the translation of `text` from `source` into
\* `target`.  The service may answer the same question differently each time,
\* so the answer also carries the fetch it answers.
Translated(r, j, source, target, text) ==
  [undef |-> FALSE, text |-> text, source |-> source, target |-> target,
   fetch |-> <<r, j>>]

-----------------------------------------------------------------------------
(* NodeCache *)

Expired(entry, t) == entry.t < t

\* translationCache.get(key): undefined for a missing or an expired key
CacheGet(cache, key, t) ==
  IF key \in DOMAIN cache /\ ~Expired(cache[key], t)
    THEN cache[key].v
    ELSE Undefined

\* Faulty variant of CacheAfterGets: a hit renews the entry's time to live
CacheAfterGetsRenewing(cache, keys, t) ==
  [k \in { k \in DOMAIN cache : ~(k \in keys /\ Expired(cache[k], t)) }
     |-> IF k \in keys THEN [cache[k] EXCEPT !.t = t + stdTTL] ELSE cache[k]]

\* get() deletes the expired entry it finds
CacheAfterGets(cache, keys, t) ==
  [k \in { k \in DOMAIN cache : ~(k \in keys /\ Expired(cache[k], t)) }
     |-> cache[k]]

\* Faulty variant of CacheSet: an entry that is present is kept (first write wins)
CacheSetKeepingFirst(cache, key, value, t) ==
  [k \in DOMAIN cache \cup { key } |->
     IF k = key /\ k \notin DOMAIN cache
       THEN [v |-> value, t |-> t + stdTTL] ELSE cache[k]]

\* Faulty variant of CacheSet: the entry is stored without its time to live
CacheSetWithoutTTL(cache, key, value, t) ==
  [k \in DOMAIN cache \cup { key } |->
     IF k = key THEN [v |-> value, t |-> t] ELSE cache[k]]

\* translationCache.set(key, value): the entry lives stdTTL from now
CacheSet(cache, key, value, t) ==
  [k \in DOMAIN cache \cup { key } |->
     IF k = key THEN [v |-> value, t |-> t + stdTTL] ELSE cache[k]]

RECURSIVE CacheSetAll(_, _, _, _)
\* fetchedTranslations.forEach(... translationCache.set(cacheKey, ...)),
\* in the order of the fetches
CacheSetAll(cache, keys, values, t) ==
  IF keys = <<>>
    THEN cache
    ELSE CacheSetAll(CacheSet(cache, Head(keys), Head(values), t),
                     Tail(keys), Tail(values), t)

-----------------------------------------------------------------------------
(* POST /api/translate *)

Has(body, field) == field \in DOMAIN body

\* Faulty variant of MissingFields: only absent fields are rejected, empty ones pass
MissingFieldsAbsentOnly(body) ==
  \/ ~Has(body, "q")
  \/ ~Has(body, "source")
  \/ ~Has(body, "target")

\* !q || !source || !target
MissingFields(body) ==
  \/ ~Has(body, "q")
  \/ (~body.q.isArray /\ body.q.v = <<>>)
  \/ ~Has(body, "source")
  \/ body.source = <<>>
  \/ ~Has(body, "target")
  \/ body.target = <<>>

\* `${source}-${target}-${text}`
CacheKey(source, target, text) ==
  source \o <<"-">> \o target \o <<"-">> \o text

\* Faulty variant of MissIndexes: every position is fetched, cached or not
MissIndexesAll(cached, i) ==
  [k \in 1..(IF i > Len(cached) THEN 0 ELSE Len(cached) - i + 1) |-> k + i - 1]

RECURSIVE MissIndexes(_, _)
\* indexesToFetch: the positions whose lookup returned undefined, ascending
\* (positions count from 1 here, from 0 in the code)
MissIndexes(cached, i) ==
  IF i > Len(cached)
    THEN <<>>
    ELSE (IF cached[i] = Undefined THEN <<i>> ELSE <<>>)
           \o MissIndexes(cached, i + 1)

\* The part of the handler that runs before the await
Lookup(body, cache, t) ==
  LET isArray == body.q.isArray
      textsToTranslate == IF isArray THEN body.q.v ELSE <<body.q.v>>
      n == Len(textsToTranslate)
      cacheKeys ==
        [i \in 1..n |-> CacheKey(body.source, body.target, textsToTranslate[i])]
      cachedTranslations == [i \in 1..n |-> CacheGet(cache, cacheKeys[i], t)]
      indexesToFetch == MissIndexes(cachedTranslations, 1)
  IN  [isArray |-> isArray,
       textsToTranslate |-> textsToTranslate,
       cacheKeys |-> cacheKeys,
       cachedTranslations |-> cachedTranslations,
       indexesToFetch |-> indexesToFetch,
       textsToFetch |->
         [j \in 1..Len(indexesToFetch) |-> textsToTranslate[indexesToFetch[j]]]]

RECURSIVE Overlay(_, _, _, _)
\* indexesToFetch.forEach((idx, fetchIdx) =>
\*   finalTranslations[idx] = fetchedTranslations[fetchIdx])
Overlay(final, indexesToFetch, fetchedTranslations, fetchIdx) ==
  IF fetchIdx > Len(indexesToFetch)
    THEN final
    ELSE Overlay([final EXCEPT ![indexesToFetch[fetchIdx]] =
                    fetchedTranslations[fetchIdx]],
                 indexesToFetch, fetchedTranslations, fetchIdx + 1)

\* res.status(400).json({ error: 'Missing required fields: q, source, target' })
Reject400(body, t, answered) ==
  [body |-> body, start |-> t, after |-> answered, pc |-> "done",
   isArray |-> FALSE, textsToTranslate |-> <<>>, cacheKeys |-> <<>>,
   cachedTranslations |-> <<>>, indexesToFetch |-> <<>>,
   textsToFetch |-> <<>>, fetches |-> <<>>, sets |-> <<>>,
   status |-> 400, resKind |-> "error", resList |-> <<>>]

\* The request after the lookups, its fetches dispatched and not yet answered.
\* start is the time of the call and after the set of requests answered before
\* it arrived.
Awaiting(body, look, t, answered) ==
  [body |-> body, start |-> t, after |-> answered, pc |-> "await",
   isArray |-> look.isArray, textsToTranslate |-> look.textsToTranslate,
   cacheKeys |-> look.cacheKeys,
   cachedTranslations |-> look.cachedTranslations,
   indexesToFetch |-> look.indexesToFetch,
   textsToFetch |-> look.textsToFetch,
   fetches |-> [j \in 1..Len(look.textsToFetch) |-> "pending"],
   sets |-> <<>>,
   status |-> 0, resKind |-> "none", resList |-> <<>>]

\* Faulty variant of Respond200: a result of one entry is unwrapped, whatever q was
Respond200UnwrappingSingle(req, fetchedTranslations) ==
  LET finalTranslations ==
        Overlay(req.cachedTranslations, req.indexesToFetch,
                fetchedTranslations, 1)
      single == Len(finalTranslations) = 1
  IN  [req EXCEPT
         !.pc = "done", !.status = 200,
         !.resKind = IF single THEN "object" ELSE "array",
         !.resList = finalTranslations]

\* res.json({ translatedText: finalTranslations[0] }) for a scalar q,
\* res.json(finalTranslations) for an array q
Respond200(req, fetchedTranslations) ==
  LET finalTranslations ==
        Overlay(req.cachedTranslations, req.indexesToFetch,
                fetchedTranslations, 1)
  IN  [req EXCEPT
         !.pc = "done", !.status = 200,
         !.resKind = IF req.isArray THEN "array" ELSE "object",
         !.resList = IF req.isArray THEN finalTranslations
                                    ELSE <<finalTranslations[1]>>]

\* catch (error) { res.status(500).json({ error: 'Translation failed' }) }
Respond500(req) ==
  [req EXCEPT !.pc = "done", !.status = 500,
              !.resKind = "error", !.resList = <<>>]

\* Faulty variant of FetchedKeys: fetch idx is stored under cacheKeys[idx]
FetchedKeysByFetchIndex(req) ==
  [j \in 1..Len(req.indexesToFetch) |-> req.cacheKeys[j]]

\* The keys the fetched translations are stored under:
\* cacheKeys[indexesToFetch[idx]] for each fetch idx
FetchedKeys(req) ==
  [j \in 1..Len(req.indexesToFetch) |-> req.cacheKeys[req.indexesToFetch[j]]]

\* responses.map(...): a response without responseData.translatedText makes
\* the callback evaluate `text`, which is not defined in its scope, so the
\* callback throws a ReferenceError
MapThrows(fetches) == \E j \in 1..Len(fetches) : fetches[j] = "malformed"

\* The part of the handler that runs after `await Promise.all(...)` once every
\* fetch of request r has been answered: the new request record and the new
\* cache
AfterAwait(req, r, cache, t) ==
  IF MapThrows(req.fetches)
    THEN [req |-> Respond500(req), cache |-> cache]
    ELSE
      LET fetchedTranslations ==
            [j \in 1..Len(req.textsToFetch) |->
               Translated(r, j, req.body.source, req.body.target,
                          req.textsToFetch[j])]
      IN  [req |-> [Respond200(req, fetchedTranslations)
                      EXCEPT !.sets = FetchedKeys(req)],
           cache |-> CacheSetAll(cache, FetchedKeys(req),
                                 fetchedTranslations, t)]

-----------------------------------------------------------------------------
(* JavaScript numbers and strings, as far as GET /api/books uses them *)

\* A number is NaN or a value v.  Page numbers and counts are integers; the
\* averages are kept in tenths (v = 15 is 1.5).
NaN == [nan |-> TRUE, v |-> 0]
Num(v) == [nan |-> FALSE, v |-> v]

\* Math.max(a, b): NaN as soon as one argument is NaN
MathMax(a, b) ==
  IF a.nan \/ b.nan THEN NaN ELSE Num(IF a.v >= b.v THEN a.v ELSE b.v)

Digits == <<"0", "1", "2", "3", "4", "5", "6", "7", "8", "9">>
IsDigit(c) == \E d \in 1..10 : Digits[d] = c
DigitValue(c) == (CHOOSE d \in 1..10 : Digits[d] = c) - 1

RECURSIVE DigitPrefix(_, _)
\* The number of leading digits of str from position i on
DigitPrefix(str, i) ==
  IF i <= Len(str) /\ IsDigit(str[i]) THEN 1 + DigitPrefix(str, i + 1) ELSE 0

RECURSIVE DigitsValue(_, _, _)
\* The value of the n digits of str that start at position i
DigitsValue(str, i, n) ==
  IF n = 0
    THEN 0
    ELSE Radix * DigitsValue(str, i, n - 1) + DigitValue(str[i + n - 1])

\* parseInt(str, 10): an optional sign, then the longest run of digits; NaN
\* when there is no digit.  What follows the digits is ignored.
ParseInt(str) ==
  LET signed == str # <<>> /\ str[1] \in { "-", "+" }
      first == IF signed THEN 2 ELSE 1
      n == DigitPrefix(str, first)
      magnitude == DigitsValue(str, first, n)
  IN  IF n = 0
        THEN NaN
        ELSE Num(IF signed /\ str[1] = "-" THEN -magnitude ELSE magnitude)

\* parseFloat(str), in tenths: an optional sign, digits, and optionally a
\* point and digits, of which the first is kept (the inputs of the model have
\* at most one); NaN when there is no digit
ParseFloat(str) ==
  LET signed == str # <<>> /\ str[1] \in { "-", "+" }
      first == IF signed THEN 2 ELSE 1
      n == DigitPrefix(str, first)
      point == first + n
      hasPoint == point <= Len(str) /\ str[point] = "."
      m == IF hasPoint THEN DigitPrefix(str, point + 1) ELSE 0
      tenths == IF m = 0 THEN 0 ELSE DigitValue(str[point + 1])
      magnitude == 10 * DigitsValue(str, first, n) + tenths
  IN  IF n = 0 /\ m = 0
        THEN NaN
        ELSE Num(IF signed /\ str[1] = "-" THEN -magnitude ELSE magnitude)

RECURSIVE NatToString(_)
\* String(n) for a natural number n
NatToString(n) ==
  IF n < 10
    THEN <<Digits[n + 1]>>
    ELSE NatToString(n \div 10) \o <<Digits[(n % 10) + 1]>>

\* `${x}` for a number x
NumToString(x) ==
  IF x.nan
    THEN <<"N", "a", "N">>
    ELSE IF x.v < 0 THEN <<"-">> \o NatToString(-x.v) ELSE NatToString(x.v)

\* str.charCodeAt(i) for the characters of the model
CharCode(c) ==
  CASE IsDigit(c) -> 48 + DigitValue(c)
    [] c = "-" -> 45
    [] c = "N" -> 78
    [] c = "a" -> 97
    [] c = "d" -> 100
    [] c = "e" -> 101
    [] c = "f" -> 102
    [] c = "l" -> 108
    [] c = "t" -> 116
    [] c = "u" -> 117
    [] c = "x" -> 120

-----------------------------------------------------------------------------
(* Helpers of GET /api/books *)

getFakerLocale(region) ==
  CASE region = <<"e", "n">> -> "en_US"
    [] region = <<"f", "r">> -> "fr"
    [] region = <<"d", "e">> -> "de"
    [] OTHER -> "en_US"

\* A 32-bit integer is kept as its two 16-bit halves <<high, low>>
Half == 2 ^ 16

\* (Math.imul(31, hash) + code) | 0 on the halves of hash
HashStep(hash, code) ==
  LET low == 31 * hash[2] + code
      high == 31 * hash[1] + (low \div Half)
  IN  <<high % Half, low % Half>>

RECURSIVE HashFrom(_, _, _)
HashFrom(hash, str, i) ==
  IF i > Len(str) THEN hash ELSE HashFrom(HashStep(hash, CharCode(str[i])), str, i + 1)

\* hashCode(str): the signed 32-bit value
hashCode(str) ==
  LET h == HashFrom(<<0, 0>>, str, 1)
  IN  (IF h[1] >= Half \div 2 THEN h[1] - Half ELSE h[1]) * Half + h[2]

\* Faulty variant of fractionalValue: the draw is compared with <= instead of <
fractionalValueInclusive(avg, u) ==
  IF avg.nan
    THEN NaN
    ELSE LET intPart == avg.v \div 10
             fraction == avg.v % 10
         IN  Num(IF u * 10 <= fraction * RandMod THEN intPart + 1 ELSE intPart)

\* fractionalValue(avg), avg in tenths, with u / RandMod the value that
\* Math.random() returns
fractionalValue(avg, u) ==
  IF avg.nan
    THEN NaN
    ELSE LET intPart == avg.v \div 10
             fraction == avg.v % 10
         IN  Num(IF u * 10 < fraction * RandMod THEN intPart + 1 ELSE intPart)

\* Math.random() is an unseeded generator: the model draws its state when a
\* request arrives and steps it at each call
MathRandomNext(u) == (u + 1) % RandMod

\* faker.seed(n): the state of faker's seeded generator
FakerSeed(n) == n % FakerMod

\* One draw of faker's generator
FakerNext(s) == (5 * s + 3) % FakerMod

\* faker.lorem.sentence(), faker.name.fullName(), faker.company.name(),
\* faker.lorem.paragraph(): a text that the generator `gen` of the locale
\* makes of one draw, and the state after it
FakerText(gen, locale, s) ==
  [text |-> [gen |-> gen, locale |-> locale, draw |-> FakerNext(s)],
   s |-> FakerNext(s)]

\* A literal of the program as a text
Literal(str) == [gen |-> str, locale |-> "", draw |-> 0]

\* a || b for texts; the empty string is the only falsy text
OrElse(a, b) == IF a = Literal("") THEN b ELSE a

RECURSIVE replaceSymbols(_, _, _)
\* faker.helpers.replaceSymbols(pattern): each "#" becomes a digit drawn from
\* the generator, every other character stays
replaceSymbols(pattern, i, s) ==
  IF i > Len(pattern)
    THEN [str |-> <<>>, s |-> s]
    ELSE LET sharp == pattern[i] = "#"
             s1 == IF sharp THEN FakerNext(s) ELSE s
             rest == replaceSymbols(pattern, i + 1, s1)
         IN  [str |-> <<IF sharp THEN Digits[(s1 % 10) + 1] ELSE pattern[i]>>
                        \o rest.str,
              s |-> rest.s]

IsbnPattern ==
  <<"#", "#", "#", "-", "#", "#", "#", "#", "#", "#", "#", "#", "#", "#">>

RECURSIVE Reviews(_, _, _, _)
\* for (let r = 0; r < numReviews; r++) { ... bookReviews.push(...) }
Reviews(r, numReviews, locale, s) ==
  IF numReviews.nan \/ ~(r < numReviews.v)
    THEN [reviews |-> <<>>, s |-> s]
    ELSE LET reviewAuthor == FakerText("name.fullName", locale, s)
             reviewText == FakerText("lorem.paragraph", locale, reviewAuthor.s)
             rest == Reviews(r + 1, numReviews, locale, reviewText.s)
         IN  [reviews |->
                (IF reviewAuthor.text = Literal("") \/ reviewText.text = Literal("")
                   THEN <<>>
                   ELSE <<[author |-> reviewAuthor.text, text |-> reviewText.text]>>)
                \o rest.reviews,
              s |-> rest.s]

\* Faulty variant of BookIndex: the index counts from 0 within the page
BookIndexFromZero(i, pageNum) ==
  IF pageNum.nan THEN NaN ELSE Num(i + (pageNum.v - 1) * booksPerPage)

\* const index = i + 1 + (pageNum - 1) * booksPerPage
BookIndex(i, pageNum) ==
  IF pageNum.nan THEN NaN ELSE Num(i + 1 + (pageNum.v - 1) * booksPerPage)

\* Faulty variant of Isbn: the drawn code alone, without the book's number
IsbnWithoutNumber(code, i) == code

\* faker.helpers.replaceSymbols('###-##########') + `-${i + 1}`
Isbn(code, i) == code \o <<"-">> \o NatToString(i + 1)

\* `https://picsum.photos/seed/${isbn}/200/300`
CoverImageUrl(isbn) ==
  <<"https://picsum.photos/seed/">> \o isbn \o <<"/200/300">>

\* One turn of the loop, for i (from 0): the record pushed, and the states of
\* the two generators after it.  call numbers the request, for uuidv4().
Book(i, pageNum, locale, avgLikes, avgReviews, s, u, call) ==
  LET title == FakerText("lorem.sentence", locale, s)
      author == FakerText("name.fullName", locale, title.s)
      publisher == FakerText("company.name", locale, author.s)
      numLikes == fractionalValue(avgLikes, u)
      u1 == MathRandomNext(u)
      numReviews == fractionalValue(avgReviews, u1)
      bookReviews == Reviews(0, numReviews, locale, publisher.s)
      symbols == replaceSymbols(IsbnPattern, 1, bookReviews.s)
      isbn == Isbn(symbols.str, i)
  IN  [book |->
         [id |-> <<call, i>>,
          index |-> BookIndex(i, pageNum),
          isbn |-> isbn,
          title |-> OrElse(title.text, Literal("Untitled")),
          author |-> OrElse(author.text, Literal("Unknown Author")),
          publisher |-> OrElse(publisher.text, Literal("Unknown Publisher")),
          likes |-> numLikes,
          reviews |-> bookReviews.reviews,
          coverImageUrl |-> CoverImageUrl(isbn)],
       s |-> symbols.s,
       u |-> MathRandomNext(u1)]

RECURSIVE Books(_, _, _, _, _, _, _, _)
\* for (let i = 0; i < booksPerPage; i++) { ... books.push(...) }
Books(i, pageNum, locale, avgLikes, avgReviews, s, u, call) ==
  IF ~(i < booksPerPage)
    THEN <<>>
    ELSE LET b == Book(i, pageNum, locale, avgLikes, avgReviews, s, u, call)
         IN  <<b.book>>
               \o Books(i + 1, pageNum, locale, avgLikes, avgReviews, b.s, b.u, call)

\* A query parameter, or its default when it is absent
Param(q, name, default) == IF name \in DOMAIN q THEN q[name] ELSE default

\* The handler of GET /api/books for the query q, with Math.random() in state
\* u: the response
BooksHandler(q, u, call) ==
  LET seed == Param(q, "seed", <<"d", "e", "f", "a", "u", "l", "t">>)
      page == Param(q, "page", <<"1">>)
      region == Param(q, "region", <<"e", "n">>)
      likes == Param(q, "likes", <<"0">>)
      reviews == Param(q, "reviews", <<"0">>)
      pageNum == MathMax(Num(1), ParseInt(page))
      avgLikes == MathMax(Num(0), ParseFloat(likes))
      avgReviews == MathMax(Num(0), ParseFloat(reviews))
      combinedSeed == seed \o <<"-">> \o NumToString(pageNum)
      fakerLocale == getFakerLocale(region)
  IN  [status |-> 200,
       books |-> Books(0, pageNum, fakerLocale, avgLikes, avgReviews,
                       FakerSeed(hashCode(combinedSeed)), u, call)]

\* Faulty variant of BooksHandlerThrowing: the records built before the
\* exception are sent
BooksHandlerThrowingPartial(q, u, call, i) ==
  [status |-> 200, books |-> SubSeq(BooksHandler(q, u, call).books, 1, i - 1)]

\* The handler when a call of iteration i of the loop throws: `books` is
\* local and unsent, and catch (error) answers
\* res.status(500).json({ error: 'Failed to generate books' })
BooksHandlerThrowing(q, u, call, i) ==
  [status |-> 500, books |-> <<>>]

-----------------------------------------------------------------------------
(* Inputs of GET /api/books *)

Absent == <<"(absent)">>

SeedParams == { Absent, <<"a">> }
PageParams == { Absent, <<"0">>, <<"-", "1">>, <<"2">>, <<"3">>, <<"x">> }
RegionParams == { Absent, <<"f", "r">> }
LikesParams == { Absent, <<"2">>, <<"1", ".", "5">>, <<"-", "1">>, <<"x">> }
ReviewsParams == { Absent, <<"1">>, <<"0", ".", "5">>, <<"x">> }

\* req.query: the parameters that are present
Queries ==
  { [name \in { n \in DOMAIN full : full[n] # Absent } |-> full[name]] :
      full \in [seed : SeedParams, page : PageParams, region : RegionParams,
                likes : LikesParams, reviews : ReviewsParams] }

-----------------------------------------------------------------------------
(* useDebounce(value, delay), src/frontend/src/useDebounce.js *)

\* The values a component passes as `value`, and the delays as `delay`
Values == { "a", "b", "c" }
Delays == 0..MaxDelay

\* No component uses the hook
NoHook ==
  [mounted |-> FALSE, value |-> "a", delay |-> 0, debouncedValue |-> "a",
   handler |-> 0]

\* The id setTimeout returns: one that no pending timeout has
NewTimerId(ts) ==
  CHOOSE i \in 1..(Cardinality(ts) + 1) : \A t \in ts : t.id # i

\* setTimeout(() => setDebouncedValue(value), delay): the callback keeps the
\* value of the render that set it
SetTimeout(ts, id, v, d) == ts \cup { [id |-> id, v |-> v, left |-> d] }

\* Faulty variant of ClearTimeout: the effect has no cleanup
ClearTimeoutNever(ts, id) == ts

\* clearTimeout(handler)
ClearTimeout(ts, id) == { t \in ts : t.id # id }

\* Faulty variant of DepsChanged: the effect has an empty dependency list
DepsNeverChanged(h, v, d) == FALSE

\* [value, delay]: the effect runs again when one of them changed
DepsChanged(h, v, d) == v # h.value \/ d # h.delay

\* The first render: useState(value), then the effect sets the timeout
FirstRender(ts, v, d) ==
  LET id == NewTimerId(ts)
  IN  [hook |-> [mounted |-> TRUE, value |-> v, delay |-> d,
                 debouncedValue |-> v, handler |-> id],
       timers |-> SetTimeout(ts, id, v, d)]

\* A later render with arguments v and d: when a dependency changed, the
\* cleanup of the previous effect runs and then the effect
Rerender(h, ts, v, d) ==
  IF DepsChanged(h, v, d)
    THEN LET cleared == ClearTimeout(ts, h.handler)
             id == NewTimerId(cleared)
         IN  [hook |-> [h EXCEPT !.value = v, !.delay = d, !.handler = id],
              timers |-> SetTimeout(cleared, id, v, d)]
    ELSE [hook |-> [h EXCEPT !.value = v, !.delay = d], timers |-> ts]

-----------------------------------------------------------------------------
(* Actions *)

InitNoHook ==
  /\ hook = NoHook
  /\ timers = {}
  /\ stable = 0
  /\ log = [cleared |-> {}, returned |-> {}]

InitTranslate ==
  /\ now = 0
  /\ translationCache = <<>>
  /\ requests = <<>>

Init ==
  /\ InitTranslate
  /\ query = <<>>
  /\ responses = <<>>
  /\ InitNoHook

Answered == { r \in 1..Len(requests) : requests[r].pc = "done" }

\* A client posts `body`; the handler runs up to its first await, or to its
\* response when it does not await
Receive(body) ==
  /\ Len(requests) < MaxRequests
  /\ UNCHANGED <<now, booksVars, debounceVars>>
  /\ IF MissingFields(body)
       THEN /\ requests' = Append(requests, Reject400(body, now, Answered))
            /\ UNCHANGED translationCache
       ELSE LET look == Lookup(body, translationCache, now)
                req == Awaiting(body, look, now, Answered)
            IN  /\ translationCache' =
                     CacheAfterGets(translationCache,
                                    { look.cacheKeys[i] :
                                        i \in 1..Len(look.cacheKeys) }, now)
                /\ requests' =
                     Append(requests,
                            IF look.textsToFetch = <<>>
                              THEN Respond200(req, <<>>)
                              ELSE req)

\* Faulty variant of FetchResolve: each translation is cached as soon as its fetch is
\* answered, instead of after Promise.all
FetchResolveCachingAtOnce(r, j, payload) ==
  /\ r \in 1..Len(requests)
  /\ j \in 1..Len(requests[r].fetches)
  /\ requests[r].fetches[j] = "pending"
  /\ UNCHANGED <<now, booksVars, debounceVars>>
  /\ LET req == [requests[r] EXCEPT !.fetches[j] = payload]
         allAnswered ==
           \A k \in 1..Len(req.fetches) : req.fetches[k] \in {"ok", "malformed"}
         cached ==
           IF payload = "ok"
             THEN CacheSet(translationCache, FetchedKeys(req)[j],
                           Translated(r, j, req.body.source, req.body.target,
                                      req.textsToFetch[j]), now)
             ELSE translationCache
     IN  IF req.pc = "await" /\ allAnswered
           THEN LET after == AfterAwait(req, r, cached, now)
                IN  /\ requests' = [requests EXCEPT ![r] = after.req]
                    /\ translationCache' = after.cache
           ELSE /\ requests' = [requests EXCEPT ![r] = req]
                /\ translationCache' = cached

\* The upstream service answers fetch j of request r with a 2xx response,
\* carrying a translation or not
FetchResolve(r, j, payload) ==
  /\ r \in 1..Len(requests)
  /\ j \in 1..Len(requests[r].fetches)
  /\ requests[r].fetches[j] = "pending"
  /\ UNCHANGED <<now, booksVars, debounceVars>>
  /\ LET req == [requests[r] EXCEPT !.fetches[j] = payload]
         allAnswered ==
           \A k \in 1..Len(req.fetches) : req.fetches[k] \in {"ok", "malformed"}
     IN  IF req.pc = "await" /\ allAnswered
           THEN LET after == AfterAwait(req, r, translationCache, now)
                IN  /\ requests' = [requests EXCEPT ![r] = after.req]
                    /\ translationCache' = after.cache
           ELSE /\ requests' = [requests EXCEPT ![r] = req]
                /\ UNCHANGED translationCache

\* Fetch j of request r fails (network error or error status): Promise.all
\* rejects at the first failure and the catch block answers
FetchReject(r, j) ==
  /\ r \in 1..Len(requests)
  /\ j \in 1..Len(requests[r].fetches)
  /\ requests[r].fetches[j] = "pending"
  /\ UNCHANGED <<now, translationCache, booksVars, debounceVars>>
  /\ LET req == [requests[r] EXCEPT !.fetches[j] = "failed"]
     IN  requests' =
           [requests EXCEPT ![r] =
              IF req.pc = "await" THEN Respond500(req) ELSE req]

\* NodeCache's periodic check (checkperiod) deletes the expired entries
CheckData ==
  /\ \E k \in DOMAIN translationCache : Expired(translationCache[k], now)
  /\ translationCache' =
       [k \in { k \in DOMAIN translationCache :
                  ~Expired(translationCache[k], now) } |-> translationCache[k]]
  /\ UNCHANGED <<now, requests, booksVars, debounceVars>>

\* Time passes
Tick ==
  /\ now < MaxTicks * TickSeconds
  /\ now' = now + TickSeconds
  /\ UNCHANGED <<translationCache, requests, booksVars, debounceVars>>

Next ==
  \/ \E body \in Bodies : Receive(body)
  \/ \E r \in 1..MaxRequests, j \in 1..MaxBatch, payload \in {"ok", "malformed"} :
       FetchResolve(r, j, payload)
  \/ \E r \in 1..MaxRequests, j \in 1..MaxBatch : FetchReject(r, j)
  \/ CheckData
  \/ Tick

Spec == Init /\ [][Next]_vars

\* A client requests the page that `query` names, any number of times
InitBooks ==
  /\ InitTranslate
  /\ query \in Queries
  /\ responses = <<>>
  /\ InitNoHook

\* GET /api/books: the handler answers the request
GetBooks(u) ==
  /\ Len(responses) < MaxCalls
  /\ responses' = Append(responses, BooksHandler(query, u, Len(responses) + 1))
  /\ UNCHANGED <<query, translateVars, debounceVars>>

NextBooks == \E u \in 0..(RandMod - 1) : GetBooks(u)

SpecBooks == InitBooks /\ [][NextBooks]_vars

\* GET /api/books when a call of iteration i of the loop throws: the catch
\* block answers the request
GetBooksThrowing(u, i) ==
  /\ Len(responses) < MaxCalls
  /\ responses' =
       Append(responses, BooksHandlerThrowing(query, u, Len(responses) + 1, i))
  /\ UNCHANGED <<query, translateVars, debounceVars>>

\* The requests when a library call of the loop may throw
NextBooksThrowing ==
  \/ \E u \in 0..(RandMod - 1) : GetBooks(u)
  \/ \E u \in 0..(RandMod - 1), i \in 1..booksPerPage : GetBooksThrowing(u, i)

SpecBooksThrowing == InitBooks /\ [][NextBooksThrowing]_vars

\* A component has rendered useDebounce(v, d) for the first time
InitDebounce ==
  /\ InitTranslate
  /\ query = <<>>
  /\ responses = <<>>
  /\ \E v \in Values, d \in Delays :
       /\ hook = FirstRender({}, v, d).hook
       /\ timers = FirstRender({}, v, d).timers
       /\ log = [cleared |-> {}, returned |-> { v }]
  /\ stable = 0

\* The component renders again, with arguments v and d
Render(v, d) ==
  /\ hook.mounted
  /\ hook' = Rerender(hook, timers, v, d).hook
  /\ timers' = Rerender(hook, timers, v, d).timers
  /\ stable' = IF v # hook.value \/ d # hook.delay THEN 0 ELSE stable
  /\ log' = [log EXCEPT !.cleared =
                @ \cup (IF v # hook.value \/ d # hook.delay
                          THEN { t.v : t \in { u \in timers :
                                                u.id = hook.handler } }
                          ELSE {})]
  /\ UNCHANGED <<translateVars, booksVars>>

\* A timeout whose delay is over runs its callback: setDebouncedValue(value)
Fire(t) ==
  /\ t \in timers
  /\ t.left = 0
  /\ timers' = timers \ { t }
  /\ hook' = IF hook.mounted THEN [hook EXCEPT !.debouncedValue = t.v] ELSE hook
  /\ log' = [log EXCEPT !.returned = @ \cup { hook'.debouncedValue }]
  /\ UNCHANGED <<stable, translateVars, booksVars>>

\* One unit of time passes
Elapse ==
  /\ timers' = { [t EXCEPT !.left = IF t.left > 0 THEN t.left - 1 ELSE 0] :
                   t \in timers }
  /\ stable' = IF stable < MaxDelay THEN stable + 1 ELSE stable
  /\ UNCHANGED <<hook, log, translateVars, booksVars>>

\* The component unmounts: the cleanup of the last effect runs
Unmount ==
  /\ hook.mounted
  /\ hook' = [hook EXCEPT !.mounted = FALSE]
  /\ timers' = ClearTimeout(timers, hook.handler)
  /\ stable' = 0
  /\ log' = [cleared |-> {}, returned |-> {}]
  /\ UNCHANGED <<translateVars, booksVars>>

\* The component mounts again: a new instance of the hook
Mount(v, d) ==
  /\ ~hook.mounted
  /\ hook' = FirstRender(timers, v, d).hook
  /\ timers' = FirstRender(timers, v, d).timers
  /\ stable' = 0
  /\ log' = [cleared |-> {}, returned |-> { v }]
  /\ UNCHANGED <<translateVars, booksVars>>

NextDebounce ==
  \/ \E v \in Values, d \in Delays : Render(v, d)
  \/ \E t \in timers : Fire(t)
  \/ Elapse
  \/ Unmount
  \/ \E v \in Values, d \in Delays : Mount(v, d)

SpecDebounce == InitDebounce /\ [][NextDebounce]_vars

\* The event loop runs a timeout whose delay is over, and time passes
SpecDebounceFair ==
  /\ SpecDebounce
  /\ WF_vars(\E t \in timers : Fire(t))
  /\ WF_vars(Elapse)

-----------------------------------------------------------------------------
(* Vocabulary of the claims about POST /api/translate *)

Reqs == 1..Len(requests)

\* A field of the body is absent or the empty string
Incomplete(body) ==
  \E f \in { "q", "source", "target" } :
    \/ f \notin DOMAIN body
    \/ body[f] = (IF f = "q" THEN Str(<<>>) ELSE <<>>)

\* Requests r1 and r2 carry the same (source, target) and r1 was answered
\* before r2 arrived
CalledAfter(r1, r2) ==
  /\ ~Incomplete(requests[r1].body)
  /\ ~Incomplete(requests[r2].body)
  /\ requests[r1].body.source = requests[r2].body.source
  /\ requests[r1].body.target = requests[r2].body.target
  /\ r1 \in requests[r2].after

\* Position k of request r was served from the cache: no fetch was issued for it
ServedFromCache(r, k) ==
  /\ requests[r].cachedTranslations[k] # Undefined
  /\ \A j \in 1..Len(requests[r].indexesToFetch) :
       requests[r].indexesToFetch[j] # k

\* Position i of request r was a cache miss, fetched from the upstream service
FetchedAt(r, i) ==
  \E j \in 1..Len(requests[r].indexesToFetch) :
    requests[r].indexesToFetch[j] = i

\* C2 as stated: when the endpoint is called twice in a row with the same
\* (source, target, text) and the second call comes less than 24 hours after
\* the first, the second call is served from the cache and issues no upstream
\* request for that text.  (First calls that met a malformed upstream payload
\* are left out: what happens to them is the subject of C4.)
C2_SecondCallIsCacheHit ==
  \A r1 \in Reqs, r2 \in Reqs :
    (r2 = r1 + 1 /\ CalledAfter(r1, r2) /\ ~MapThrows(requests[r1].fetches)
       /\ requests[r2].start - requests[r1].start < stdTTL)
    => \A i \in 1..Len(requests[r1].textsToTranslate),
          k \in 1..Len(requests[r2].textsToTranslate) :
         requests[r1].textsToTranslate[i] = requests[r2].textsToTranslate[k]
           => ServedFromCache(r2, k)

\* C2 amended: when a call is answered successfully after fetching a text from
\* the upstream service (the text was a cache miss in it), a later call with
\* the same (source, target, text) that comes less than 24 hours after it is
\* served from the cache and issues no upstream request for that text.
C2_SecondCallAfterFetchIsCacheHit ==
  \A r1 \in Reqs, r2 \in Reqs :
    (CalledAfter(r1, r2) /\ requests[r1].status = 200
       /\ requests[r2].start - requests[r1].start < stdTTL)
    => \A i \in 1..Len(requests[r1].textsToTranslate),
          k \in 1..Len(requests[r2].textsToTranslate) :
         (requests[r1].textsToTranslate[i] = requests[r2].textsToTranslate[k]
            /\ FetchedAt(r1, i))
           => ServedFromCache(r2, k)

\* A second call, some time but less than 24 hours after a first call that
\* fetched the same text, found the text in the cache
C2_Witness ==
  \E r1 \in Reqs, r2 \in Reqs :
    /\ CalledAfter(r1, r2) /\ requests[r1].status = 200
    /\ requests[r2].start > requests[r1].start
    /\ requests[r2].start - requests[r1].start < stdTTL
    /\ \E i \in 1..Len(requests[r1].textsToTranslate),
          k \in 1..Len(requests[r2].textsToTranslate) :
         /\ requests[r1].textsToTranslate[i] = requests[r2].textsToTranslate[k]
         /\ FetchedAt(r1, i)
         /\ ServedFromCache(r2, k)

\* v is what the upstream service answers for `text` from `source` to `target`
IsTranslationOf(v, source, target, text) ==
  /\ ~v.undef
  /\ v.text = text
  /\ v.source = source
  /\ v.target = target

\* C3: a successful request whose q is an array of N strings is answered with
\* an array of N entries, and entry i is the translation of input i, whatever
\* positions were cache hits and in whatever order the fetches completed.
C3_OutputMirrorsInput ==
  \A r \in Reqs :
    (requests[r].status = 200 /\ requests[r].body.q.isArray)
    => /\ requests[r].resKind = "array"
       /\ Len(requests[r].resList) = Len(requests[r].body.q.v)
       /\ \A i \in 1..Len(requests[r].body.q.v) :
            IsTranslationOf(requests[r].resList[i], requests[r].body.source,
                            requests[r].body.target, requests[r].body.q.v[i])

\* C4: when every fetch of a request is answered and some answer is malformed
\* (no responseData.translatedText), the request still succeeds: a malformed
\* position holds its input text unchanged, every other position its own
\* translation.
C4_MalformedPayloadEchoesText ==
  \A r \in Reqs :
    (/\ requests[r].fetches # <<>>
     /\ \A j \in 1..Len(requests[r].fetches) :
          requests[r].fetches[j] \in { "ok", "malformed" })
    => /\ requests[r].status = 200
       /\ \A j \in 1..Len(requests[r].fetches) :
            LET i == requests[r].indexesToFetch[j]
                entry == requests[r].resList[IF requests[r].isArray THEN i ELSE 1]
            IN  IF requests[r].fetches[j] = "malformed"
                  THEN entry = [undef |-> FALSE, echo |-> requests[r].textsToFetch[j]]
                  ELSE IsTranslationOf(entry, requests[r].body.source,
                                       requests[r].body.target,
                                       requests[r].textsToFetch[j])

\* C5: a request one of whose fetches failed is answered with a 500 error that
\* carries no translation, and it writes nothing to the cache: it performed no
\* set, and no cache entry holds a value one of its fetches returned.
C5_FailedFetchFailsRequestWithoutCaching ==
  \A r \in Reqs :
    (\E j \in 1..Len(requests[r].fetches) : requests[r].fetches[j] = "failed")
    => /\ requests[r].status = 500
       /\ requests[r].resKind = "error"
       /\ requests[r].resList = <<>>
       /\ requests[r].sets = <<>>
       /\ \A k \in DOMAIN translationCache :
            translationCache[k].v.fetch[1] # r

\* A request of two fetches, one answered with a translation and the other
\* failed, has been answered
C5_Witness ==
  \E r \in Reqs :
    /\ requests[r].status = 500
    /\ \E j \in 1..Len(requests[r].fetches) : requests[r].fetches[j] = "failed"
    /\ \E j \in 1..Len(requests[r].fetches) : requests[r].fetches[j] = "ok"

\* C6: a request in which q, source or target is absent or the empty string is
\* answered with a 400 error before any work: no cache lookup, no upstream
\* request, no cache write, and the step that receives it leaves the cache
\* as it was.
C6_MissingFieldRejectedBeforeAnyWork ==
  [][\A r \in 1..Len(requests') :
       Incomplete(requests'[r].body)
       => /\ requests'[r].status = 400
          /\ requests'[r].resKind = "error"
          /\ requests'[r].cachedTranslations = <<>>
          /\ requests'[r].fetches = <<>>
          /\ requests'[r].sets = <<>>
          /\ (r > Len(requests) => translationCache' = translationCache)]_vars

\* A request without a target arrived while the cache held an entry
C6_Witness ==
  \E r \in Reqs :
    /\ "target" \notin DOMAIN requests[r].body
    /\ requests[r].status = 400
    /\ translationCache # <<>>

\* C7: a successful response has the shape of q: a scalar q is answered with
\* an object { translatedText: <string> }, an array q of any length (0 and 1
\* included) with an array of the same length; an array q is never answered
\* in the scalar form, nor a scalar q with an array.
C7_ResponseHasShapeOfInput ==
  \A r \in Reqs :
    ~Incomplete(requests[r].body)
    => IF requests[r].body.q.isArray
         THEN /\ requests[r].resKind # "object"
              /\ requests[r].status = 200
                   => /\ requests[r].resKind = "array"
                      /\ Len(requests[r].resList) = Len(requests[r].body.q.v)
         ELSE /\ requests[r].resKind # "array"
              /\ requests[r].status = 200
                   => /\ requests[r].resKind = "object"
                      /\ Len(requests[r].resList) = 1
                      /\ ~requests[r].resList[1].undef

\* An array of one text and an empty array have both been answered
C7_Witness ==
  \E r1 \in Reqs, r2 \in Reqs :
    /\ requests[r1].status = 200 /\ requests[r2].status = 200
    /\ requests[r1].body.q.isArray /\ Len(requests[r1].body.q.v) = 1
    /\ requests[r1].fetches # <<>>
    /\ requests[r2].body.q.isArray /\ Len(requests[r2].body.q.v) = 0

-----------------------------------------------------------------------------
(* Claims about GET /api/books *)

Calls == 1..Len(responses)

\* The field of each record of response c, in order
FieldSeq(c, field) ==
  [i \in 1..Len(responses[c].books) |-> responses[c].books[i][field]]

\* C1: two calls with identical (seed, page, region, likes, reviews), the
\* averages fractional or not, return the same sequences of title, author,
\* publisher, isbn and coverImageUrl; only id may differ.
C1_SameParametersSameRecords ==
  \A a \in Calls, b \in Calls :
    \A field \in { "title", "author", "publisher", "isbn", "coverImageUrl" } :
      FieldSeq(a, field) = FieldSeq(b, field)

\* The page a well-formed page parameter asks for (an absent parameter asks
\* for page 1)
RequestedPage ==
  CASE "page" \notin DOMAIN query -> 1
    [] "page" \in DOMAIN query /\ query.page = <<"2">> -> 2
    [] "page" \in DOMAIN query /\ query.page = <<"3">> -> 3
    [] OTHER -> 0

\* C8: for a page number p >= 1 the response is 20 records whose index values
\* are (p-1)*20+1, ..., p*20 in order, so that page p ends at p*20 and page
\* p+1 starts at p*20+1.
C8_IndexesOfPage ==
  \A c \in Calls :
    RequestedPage >= 1
    => /\ responses[c].status = 200
       /\ Len(responses[c].books) = 20
       /\ \A i \in 1..20 :
            responses[c].books[i].index = Num((RequestedPage - 1) * 20 + i)

\* Page 2 has been answered with the indexes 21..40
C8_Witness ==
  \E c \in Calls :
    /\ RequestedPage = 2
    /\ responses[c].books[1].index = Num(21)
    /\ responses[c].books[20].index = Num(40)

\* The averages that the well-formed parameters of the model ask for: the
\* floor of the average and whether the average is an integer (an absent
\* parameter asks for 0)
RequestedAverage(name) ==
  CASE name \notin DOMAIN query -> [floor |-> 0, integer |-> TRUE]
    [] name \in DOMAIN query /\ query[name] = <<"1">> -> [floor |-> 1, integer |-> TRUE]
    [] name \in DOMAIN query /\ query[name] = <<"2">> -> [floor |-> 2, integer |-> TRUE]
    [] name \in DOMAIN query /\ query[name] = <<"0", ".", "5">> -> [floor |-> 0, integer |-> FALSE]
    [] name \in DOMAIN query /\ query[name] = <<"1", ".", "5">> -> [floor |-> 1, integer |-> FALSE]
    [] OTHER -> [floor |-> -1, integer |-> FALSE]

\* n is floor(A) or floor(A)+1, and floor(A) = A when A is an integer
WithinAverage(n, average) ==
  \/ n = average.floor
  \/ ~average.integer /\ n = average.floor + 1

\* C9: for an average A >= 0 every book's like count and number of reviews is
\* floor(A) or floor(A)+1 of its average, and exactly A when A is an integer.
C9_CountsFollowAverage ==
  \A c \in Calls : \A i \in 1..Len(responses[c].books) :
    LET book == responses[c].books[i]
    IN  /\ RequestedAverage("likes").floor >= 0
             => /\ ~book.likes.nan
                /\ WithinAverage(book.likes.v, RequestedAverage("likes"))
        /\ RequestedAverage("reviews").floor >= 0
             => WithinAverage(Len(book.reviews), RequestedAverage("reviews"))

\* A page for average likes 2 and average reviews 0.5 has been answered, with
\* a book without review and a book with one review
C9_Witness ==
  \E c \in Calls :
    /\ RequestedAverage("likes") = [floor |-> 2, integer |-> TRUE]
    /\ RequestedAverage("reviews") = [floor |-> 0, integer |-> FALSE]
    /\ \A i \in 1..20 : responses[c].books[i].likes = Num(2)
    /\ \E i \in 1..20 : Len(responses[c].books[i].reviews) = 0
    /\ \E i \in 1..20 : Len(responses[c].books[i].reviews) = 1

\* C10: whatever the page parameter is (absent, 0, negative, not a number),
\* the request is answered with a page and every record's index is a positive
\* integer.
C10_IndexIsPositiveInteger ==
  \A c \in Calls :
    /\ responses[c].status = 200
    /\ \A i \in 1..Len(responses[c].books) :
         /\ ~responses[c].books[i].index.nan
         /\ responses[c].books[i].index.v >= 1

\* C11: whatever the likes and reviews parameters are (negative, not a
\* number), the averages used are numbers >= 0, so every book's likes field
\* is a non-negative integer.
C11_LikesIsNonNegativeInteger ==
  \A c \in Calls : \A i \in 1..Len(responses[c].books) :
    /\ ~responses[c].books[i].likes.nan
    /\ responses[c].books[i].likes.v >= 0

-----------------------------------------------------------------------------
(* Further claims about POST /api/translate *)

\* The keys request r stored in the cache in this step
StoredNow(r) ==
  IF r <= Len(requests) /\ requests[r].status = 0 /\ requests'[r].status = 200
    THEN { requests'[r].sets[j] : j \in 1..Len(requests'[r].sets) }
    ELSE {}

\* C12: a cache entry lives 24 hours (stdTTL) from its most recent insertion.
\* In every step: an entry that is new or changed was inserted in this step by
\* a request that fetched its key, and expires stdTTL from now; no other
\* step, a cache hit included, changes an entry's expiry; an entry leaves the
\* cache only once its own 24 hours are over; and a request that arrives
\* finds a key exactly when the key's entry is not older than 24 hours, and
\* fetches every key it does not find.
C12_EntryLives24HoursFromInsertion ==
  [][/\ \A k \in DOMAIN translationCache' :
          (k \notin DOMAIN translationCache
             \/ translationCache'[k] # translationCache[k])
          => /\ translationCache'[k].t = now + stdTTL
             /\ \E r \in 1..Len(requests') : k \in StoredNow(r)
     /\ \A k \in DOMAIN translationCache \ DOMAIN translationCache' :
          translationCache[k].t < now
     /\ \A r \in 1..Len(requests') :
          (r > Len(requests) /\ ~Incomplete(requests'[r].body))
          => \A i \in 1..Len(requests'[r].cacheKeys) :
               LET k == requests'[r].cacheKeys[i]
                   live == /\ k \in DOMAIN translationCache
                           /\ now <= translationCache[k].t
                   fetched == \E j \in 1..Len(requests'[r].indexesToFetch) :
                                requests'[r].indexesToFetch[j] = i
               IN  /\ live <=> requests'[r].cachedTranslations[i] # Undefined
                   /\ live <=> ~fetched]_vars

\* A request fetched a text that an earlier request had stored more than 24
\* hours before
C12_Witness ==
  \E r1 \in Reqs, r2 \in Reqs :
    /\ r1 \in requests[r2].after
    /\ requests[r1].status = 200
    /\ requests[r2].start - requests[r1].start > stdTTL
    /\ \E j \in 1..Len(requests[r1].sets), i \in 1..Len(requests[r2].cacheKeys) :
         /\ requests[r1].sets[j] = requests[r2].cacheKeys[i]
         /\ FetchedAt(r2, i)

\* C13: a request is answered (200 or 500) only once every fetch it
\* dispatched has resolved or failed: an answered request has no pending fetch.
C13_AnsweredOnlyAfterAllFetches ==
  \A r \in Reqs :
    requests[r].status # 0
    => \A j \in 1..Len(requests[r].fetches) : requests[r].fetches[j] # "pending"

\* The (source, target, text) triple of position i of request r
Triple(r, i) ==
  <<requests[r].body.source, requests[r].body.target,
    requests[r].textsToTranslate[i]>>

\* C14: cache keys separate distinct inputs, also when tags or texts contain
\* "-": two positions of received requests whose (source, target, text)
\* triples differ have different keys, and a value a request takes from the
\* cache was stored by a fetch for that request's own triple.
C14_KeysSeparateInputs ==
  \A r1 \in Reqs, r2 \in Reqs :
    (~Incomplete(requests[r1].body) /\ ~Incomplete(requests[r2].body))
    => \A i \in 1..Len(requests[r1].cacheKeys) :
         /\ \A k \in 1..Len(requests[r2].cacheKeys) :
              Triple(r1, i) # Triple(r2, k)
              => requests[r1].cacheKeys[i] # requests[r2].cacheKeys[k]
         /\ ServedFromCache(r1, i)
            => IsTranslationOf(requests[r1].cachedTranslations[i],
                               Triple(r1, i)[1], Triple(r1, i)[2],
                               Triple(r1, i)[3])

\* Requests r1 and r2 overlap on the text at positions i1 and i2: same key,
\* uncached at both lookups, and neither request was answered before the
\* other arrived
Overlap(r1, i1, r2, i2) ==
  /\ r1 # r2
  /\ r1 \notin requests[r2].after
  /\ r2 \notin requests[r1].after
  /\ i1 \in 1..Len(requests[r1].cacheKeys)
  /\ i2 \in 1..Len(requests[r2].cacheKeys)
  /\ requests[r1].cacheKeys[i1] = requests[r2].cacheKeys[i2]
  /\ requests[r1].cachedTranslations[i1] = Undefined
  /\ requests[r2].cachedTranslations[i2] = Undefined

\* Positions i1 of r1 and i2 of r2, as they are after the step
OverlapNext(r1, i1, r2, i2) ==
  /\ r1 # r2
  /\ r1 \notin requests'[r2].after
  /\ r2 \notin requests'[r1].after
  /\ i1 \in 1..Len(requests'[r1].cacheKeys)
  /\ i2 \in 1..Len(requests'[r2].cacheKeys)
  /\ requests'[r1].cacheKeys[i1] = requests'[r2].cacheKeys[i2]
  /\ requests'[r1].cachedTranslations[i1] = Undefined
  /\ requests'[r2].cachedTranslations[i2] = Undefined

\* C15: two overlapping requests for the same uncached text both issue their
\* own fetch, and each one that succeeds is answered with the value of its own
\* fetch; the step that answers the later of the two leaves in the cache,
\* under the shared key, a value fetched by that request (last write wins) and
\* leaves every entry under a key it did not fetch as it was.
C15_OverlappingRequestsLastWriteWins ==
  /\ [](\A r1 \in Reqs, r2 \in Reqs :
          \A i1 \in 1..MaxBatch, i2 \in 1..MaxBatch :
            Overlap(r1, i1, r2, i2)
            => /\ FetchedAt(r1, i1) /\ FetchedAt(r2, i2)
               /\ requests[r1].status = 200
                  => requests[r1].resList[i1].fetch[1] = r1)
  /\ [][\A r1 \in Reqs, r2 \in Reqs :
          \A i1 \in 1..MaxBatch, i2 \in 1..MaxBatch :
            (/\ OverlapNext(r1, i1, r2, i2)
             /\ requests[r2].status = 200
             /\ requests[r1].status = 0 /\ requests'[r1].status = 200)
            => LET key == requests'[r1].cacheKeys[i1]
               IN  /\ key \in DOMAIN translationCache'
                   /\ translationCache'[key].v.fetch[1] = r1
                   /\ \A k \in DOMAIN translationCache :
                        k \notin StoredNow(r1)
                        => /\ k \in DOMAIN translationCache'
                           /\ translationCache'[k] = translationCache[k]]_vars

\* Both overlapping requests were answered with their own fetch's value, and
\* the cache holds the value of the request that arrived first, which was
\* answered last
C15_Witness ==
  \E i1 \in 1..MaxBatch, i2 \in 1..MaxBatch :
    /\ Len(requests) = 2
    /\ Overlap(1, i1, 2, i2)
    /\ requests[1].status = 200 /\ requests[2].status = 200
    /\ requests[1].resList[i1].fetch[1] = 1
    /\ requests[2].resList[i2].fetch[1] = 2
    /\ requests[1].cacheKeys[i1] \in DOMAIN translationCache
    /\ translationCache[requests[1].cacheKeys[i1]].v.fetch[1] = 1

\* The positions of request r whose lookup missed
MissPositions(r) ==
  { i \in 1..Len(requests[r].cachedTranslations) :
      requests[r].cachedTranslations[i] = Undefined }

\* C16: a request issues exactly one upstream request per cache-miss position
\* and none for a hit: the fetches are as many as the miss positions, fetch j
\* is for a miss position and carries that position's text, and no two fetches
\* are for one position.  So a batch that is all hits fetches nothing, and a
\* text at two miss positions is fetched twice.
C16_OneFetchPerMissPosition ==
  \A r \in Reqs :
    ~Incomplete(requests[r].body)
    => /\ Len(requests[r].fetches) = Cardinality(MissPositions(r))
       /\ Len(requests[r].indexesToFetch) = Len(requests[r].fetches)
       /\ Len(requests[r].textsToFetch) = Len(requests[r].fetches)
       /\ \A j \in 1..Len(requests[r].fetches) :
            /\ requests[r].indexesToFetch[j] \in MissPositions(r)
            /\ requests[r].textsToFetch[j] =
                 requests[r].textsToTranslate[requests[r].indexesToFetch[j]]
            /\ \A k \in 1..Len(requests[r].fetches) :
                 requests[r].indexesToFetch[j] = requests[r].indexesToFetch[k]
                 => j = k

\* One batch with the same text at two miss positions has two fetches, and a
\* later batch with that text, all of it cached, has none
C16_Witness ==
  \E r1 \in Reqs, r2 \in Reqs :
    /\ Len(requests[r1].textsToTranslate) = 2
    /\ requests[r1].textsToTranslate[1] = requests[r1].textsToTranslate[2]
    /\ Len(requests[r1].fetches) = 2
    /\ requests[r2].textsToTranslate # <<>>
    /\ MissPositions(r2) = {}
    /\ requests[r2].fetches = <<>>
    /\ requests[r2].status = 200

\* Request r is answered with 200 in this step
AnsweredOkNow(r) ==
  /\ r \in 1..Len(requests')
  /\ requests'[r].status = 200
  /\ (r > Len(requests) \/ requests[r].status = 0)

\* Values a and b are the same translation, whichever fetch brought them
SameTranslation(a, b) ==
  /\ a.text = b.text
  /\ a.source = b.source
  /\ a.target = b.target

\* C17, as stated: when a request is answered successfully, for each input
\* position i the cache holds, under the key of position i, the translation
\* returned at position i.
C17_CacheHoldsEveryReturnedValue ==
  [][\A r \in 1..Len(requests') :
       AnsweredOkNow(r)
       => \A i \in 1..Len(requests'[r].cacheKeys) :
            /\ requests'[r].cacheKeys[i] \in DOMAIN translationCache'
            /\ SameTranslation(
                 translationCache'[requests'[r].cacheKeys[i]].v,
                 requests'[r].resList[i])]_vars

\* C17, amended: when a request is answered successfully, a hit position
\* returns the value found at the lookup; for a miss position the cache holds,
\* under that position's key and for 24 hours, the value returned at the last
\* miss position that has the same key (the position itself when its text
\* occurs at one miss position only); and every entry the step wrote is under
\* the key of one of the request's miss positions.
C17_CacheHoldsEveryFetchedValue ==
  [][\A r \in 1..Len(requests') :
       AnsweredOkNow(r)
       => LET req == requests'[r]
              misses == { req.indexesToFetch[j] :
                            j \in 1..Len(req.indexesToFetch) }
              LastWith(i) ==
                CHOOSE m \in misses :
                  /\ req.cacheKeys[m] = req.cacheKeys[i]
                  /\ \A n \in misses :
                       req.cacheKeys[n] = req.cacheKeys[i] => n <= m
          IN  /\ \A i \in 1..Len(req.cacheKeys) \ misses :
                   req.resList[i] = req.cachedTranslations[i]
              /\ \A i \in misses :
                   /\ req.cacheKeys[i] \in DOMAIN translationCache'
                   /\ translationCache'[req.cacheKeys[i]]
                        = [v |-> req.resList[LastWith(i)], t |-> now + stdTTL]
              /\ \A k \in DOMAIN translationCache' :
                   (k \notin DOMAIN translationCache
                      \/ translationCache'[k] # translationCache[k])
                   => \E i \in misses : k = req.cacheKeys[i]]_vars

\* A successful batch with a hit at its first position and a miss at its
\* second, whose fetched value is in the cache under the second key
C17_Witness ==
  \E r \in Reqs :
    /\ requests[r].status = 200
    /\ requests[r].indexesToFetch = <<2>>
    /\ requests[r].cacheKeys[2] \in DOMAIN translationCache
    /\ translationCache[requests[r].cacheKeys[2]].v = requests[r].resList[2]
    /\ requests[r].resList[1] = requests[r].cachedTranslations[1]

-----------------------------------------------------------------------------
(* Claims about useDebounce *)

\* C18: useDebounce never publishes a superseded value.  At most one timeout
\* is pending; a render that changes value or delay leaves pending only the
\* timeout it set, for the new value and the new delay; and when the debounced
\* value of a mounted hook changes, it changes to the current value, which
\* (with the delay) has been unchanged for the full delay.
C18_NeverPublishesSupersededValue ==
  /\ [](Cardinality(timers) <= 1)
  /\ [][/\ (hook.mounted /\ hook'.mounted
             /\ (hook'.value # hook.value \/ hook'.delay # hook.delay))
          => timers' = { [id |-> hook'.handler, v |-> hook'.value,
                          left |-> hook'.delay] }
        /\ (hook.mounted /\ hook'.mounted
             /\ hook'.debouncedValue # hook.debouncedValue)
          => /\ hook'.debouncedValue = hook.value
             /\ hook'.value = hook.value
             /\ stable >= hook.delay]_vars

\* The hook showed "a", the timeout for "b" was cleared before it ran, and
\* the hook now returns "c", held for the full delay, without ever having
\* returned "b"
C18_Witness ==
  /\ hook.mounted
  /\ hook.value = "c"
  /\ hook.debouncedValue = "c"
  /\ hook.delay = MaxDelay
  /\ "b" \in log.cleared \ log.returned
  /\ "a" \in log.returned

\* Once the debounced value equals the value, it stays equal to it for as
\* long as the value stays the same and the component stays mounted
StaysEqualUntilValueChanges ==
  [][(/\ hook.mounted /\ hook'.mounted
      /\ hook.debouncedValue = hook.value
      /\ hook'.value = hook.value)
     => hook'.debouncedValue = hook.value]_vars

\* C19, as stated: if the value stops changing and the component stays
\* mounted, the debounced value eventually equals the latest value for good,
\* and it stays equal to the value until the value changes.
C19_ConvergesOnceValueStops ==
  /\ \A v \in Values :
       <>[](hook.mounted /\ hook.value = v) => <>[](hook.debouncedValue = v)
  /\ StaysEqualUntilValueChanges

\* C19, amended: if the value and the delay stop changing and the component
\* stays mounted, the debounced value eventually equals the latest value for
\* good, and it stays equal to the value until the value changes.
C19_ConvergesOnceValueAndDelayStop ==
  /\ \A v \in Values, d \in Delays :
       <>[](hook.mounted /\ hook.value = v /\ hook.delay = d)
       => <>[](hook.debouncedValue = v)
  /\ StaysEqualUntilValueChanges

\* The value changed from "a" to "b" once, and after the delay the hook
\* returns "b"
C19_Witness ==
  /\ hook.mounted
  /\ hook.value = "b"
  /\ hook.delay = 1
  /\ hook.debouncedValue = "b"
  /\ log = [cleared |-> { "a" }, returned |-> { "a", "b" }]
  /\ timers = {}

-----------------------------------------------------------------------------
(* Further claims about GET /api/books *)

\* C20: every request gets one response, which is either the complete page
\* of booksPerPage (20) records or the 500 error without any record; an
\* exception in the loop never yields a page of fewer than 20 records.
\* (Checked where a call of the loop may throw, SpecBooksThrowing.)
C20_CompletePageOrServerError ==
  /\ Len(responses) <= MaxCalls
  /\ \A c \in Calls :
       \/ responses[c].status = 200 /\ Len(responses[c].books) = booksPerPage
       \/ responses[c].status = 500 /\ responses[c].books = <<>>

\* One request was answered with the error and another with a complete page
C20_Witness ==
  \E a \in Calls, b \in Calls :
    /\ responses[a].status = 500
    /\ responses[a].books = <<>>
    /\ responses[b].status = 200
    /\ Len(responses[b].books) = booksPerPage

\* The code drawn for a record: its isbn up to the pattern's length
DrawnCode(book) == SubSeq(book.isbn, 1, Len(IsbnPattern))

\* C21: within one page the 20 isbn values are pairwise distinct, whatever
\* digits the generator draws, and so are the 20 cover URLs; the cover URL is
\* a function of the isbn alone: two records, of any pages, with the same isbn
\* have the same cover URL.
C21_IsbnsAndCoversDistinctWithinPage ==
  \A c \in Calls :
    /\ Len(responses[c].books) = booksPerPage
    /\ \A i \in 1..booksPerPage, j \in 1..booksPerPage :
         i # j
         => /\ responses[c].books[i].isbn # responses[c].books[j].isbn
            /\ responses[c].books[i].coverImageUrl
                 # responses[c].books[j].coverImageUrl
    /\ \A d \in Calls : \A i \in 1..booksPerPage, j \in 1..booksPerPage :
         responses[c].books[i].isbn = responses[d].books[j].isbn
         => responses[c].books[i].coverImageUrl
              = responses[d].books[j].coverImageUrl

\* A page has been answered in which the generator drew the same code for two
\* records, whose isbn values differ all the same
C21_Witness ==
  \E c \in Calls : \E i \in 1..booksPerPage, j \in 1..booksPerPage :
    /\ i # j
    /\ DrawnCode(responses[c].books[i]) = DrawnCode(responses[c].books[j])
    /\ responses[c].books[i].isbn # responses[c].books[j].isbn

====
